---- MODULE Spec2Model ----
(***************************************************************************)
(* A model of the manganis macro crate (src/macro/src/lib.rs and           *)
(* src/macro/src/font.rs): the font option parser and URL builder, the     *)
(* one-shot diagnostic log initialisation, the link-section embedder and   *)
(* the classes!, meta! and mg! expansions.                                 *)
(*                                                                         *)
(* A Rust String is modelled as the sequence of its UTF-8 bytes.  An ASCII *)
(* byte is written as the one-character string of its character; a byte    *)
(* above 0x7F is written as its two hexadecimal digits ("C3", "A9").       *)
(***************************************************************************)
EXTENDS Integers, Sequences, FiniteSets, TLC

VARIABLES
    \* font option parser and URL builder
    decl,            \* the option entries written at the declaration site
    fontPc,          \* "parse" | "url" | "done" | "failed"
    parsed,          \* result of ParseFontOptions::parse
    urlOut,          \* result of ParseFontOptions::url
    \* diagnostic log
    LOG_FILE_FRESH,  \* the process-wide AtomicBool
    callPc,          \* position of every trace_to_file call in flight
    logTruncations,  \* how often the log file was opened with truncate(true)
    subscriberInits, \* how often the tracing subscriber was installed
    logRecords,      \* number of records in the log file
    \* macro expansions of the compilation units
    unit,            \* the compilation unit (process) now expanding macros
    nExpansions,     \* expansions made so far, over all units
    cache,           \* registration cache of the current unit: key -> served location
    processCount,    \* per key, how often the processing step ran in this unit
    registerCalls,   \* per key, how often add_asset was called in this unit
    statics,         \* every static emitted so far, in emission order
    last,            \* the expansion made last: macro, outcome and returned tokens
    region,          \* contents of the link section after linking
    linkOrder        \* the order in which the linker laid the statics out

fontVars == <<decl, fontPc, parsed, urlOut>>
logVars == <<LOG_FILE_FRESH, callPc, logTruncations, subscriberInits, logRecords>>
unitVars == <<unit, nExpansions, cache, processCount, registerCalls, statics, last,
              region, linkOrder>>
vars == <<decl, fontPc, parsed, urlOut, LOG_FILE_FRESH, callPc, logTruncations,
          subscriberInits, logRecords, unit, nExpansions, cache, processCount,
          registerCalls, statics, last, region, linkOrder>>

---------------------------------------------------------------------------
(* Strings *)

\* The TLA+ string spelled by a byte sequence (for comparison with literals).
RECURSIVE Str(_)
Str(s) == IF s = <<>> THEN "" ELSE Head(s) \o Str(Tail(s))

\* str::replace(' ', "+")
replace_space(s) == [i \in 1..Len(s) |-> IF s[i] = " " THEN "+" ELSE s[i]]

\* [String]::join(sep)
RECURSIVE join(_, _)
join(parts, sep) ==
    IF parts = <<>> THEN <<>>
    ELSE IF Len(parts) = 1 THEN parts[1]
    ELSE parts[1] \o sep \o join(Tail(parts), sep)

DecimalDigits == <<"0", "1", "2", "3", "4", "5", "6", "7", "8", "9">>

\* u32::to_string
RECURSIVE to_string(_)
to_string(n) ==
    IF n < 10 THEN <<DecimalDigits[n + 1]>>
    ELSE to_string(n \div 10) \o <<DecimalDigits[(n % 10) + 1]>>

UpperCase == <<"A", "B", "C", "D", "E", "F", "G", "H", "I", "J", "K", "L", "M",
               "N", "O", "P", "Q", "R", "S", "T", "U", "V", "W", "X", "Y", "Z">>
LowerCase == <<"a", "b", "c", "d", "e", "f", "g", "h", "i", "j", "k", "l", "m",
               "n", "o", "p", "q", "r", "s", "t", "u", "v", "w", "x", "y", "z">>

\* str::to_lowercase, on identifiers (ASCII letters, digits and underscores)
to_lowercase(s) ==
    [i \in 1..Len(s) |->
        IF \E k \in 1..26 : UpperCase[k] = s[i]
        THEN LowerCase[CHOOSE k \in 1..26 : UpperCase[k] = s[i]]
        ELSE s[i]]

\* Whether `part` occurs in `s` starting at position i.
OccursAt(s, part, i) ==
    /\ i >= 1
    /\ i + Len(part) - 1 <= Len(s)
    /\ \A j \in 1..Len(part) : s[i + j - 1] = part[j]

Occurrences(s, part) == {i \in 1..Len(s) : OccursAt(s, part, i)}

---------------------------------------------------------------------------
(* font.rs: the font options *)

FontEndpoint == <<"h", "t", "t", "p", "s", ":", "/", "/", "f", "o", "n", "t", "s", ".",
                  "g", "o", "o", "g", "l", "e", "a", "p", "i", "s", ".", "c", "o", "m",
                  "/", "c", "s", "s", "2">>
FamilyPrefix == <<"f", "a", "m", "i", "l", "y", "=">>
WeightPrefix == <<"w", "e", "i", "g", "h", "t", "=">>
TextPrefix == <<"t", "e", "x", "t", "=">>
DisplayPrefix == <<"d", "i", "s", "p", "l", "a", "y", "=">>

\* The option names the parser matches on.
KeyFamilies == <<"f", "a", "m", "i", "l", "i", "e", "s">>
KeyWeights == <<"w", "e", "i", "g", "h", "t", "s">>
KeyText == <<"t", "e", "x", "t">>
KeyDisplay == <<"d", "i", "s", "p", "l", "a", "y">>
RecognizedKeys == {KeyFamilies, KeyWeights, KeyText, KeyDisplay}

\* u32::MAX, as the decimal digits of an integer literal
U32MaxDigits == <<"4", "2", "9", "4", "9", "6", "7", "2", "9", "5">>

DigitValue(c) == (CHOOSE k \in 1..10 : DecimalDigits[k] = c) - 1

\* The digits of a literal without its leading zeros.
RECURSIVE StripZeros(_)
StripZeros(d) == IF Len(d) > 1 /\ d[1] = "0" THEN StripZeros(Tail(d)) ELSE d

\* Whether two digit strings of the same length are in order.
RECURSIVE DigitsLeq(_, _)
DigitsLeq(a, b) ==
    IF a = <<>> THEN TRUE
    ELSE IF DigitValue(a[1]) < DigitValue(b[1]) THEN TRUE
    ELSE IF DigitValue(a[1]) > DigitValue(b[1]) THEN FALSE
    ELSE DigitsLeq(Tail(a), Tail(b))

\* Whether the literal is written with a minus sign: LitInt keeps the sign
\* among its base10_digits.
Negative(d) == d # <<>> /\ d[1] = "-"

\* Whether LitInt::base10_parse::<u32>() succeeds on the digits of a literal:
\* u32::from_str takes no minus sign and no value above u32::MAX.
FitsU32(d) ==
    /\ ~Negative(d)
    /\ LET s == StripZeros(d)
       IN Len(s) < 10 \/ (Len(s) = 10 /\ DigitsLeq(s, U32MaxDigits))

\* The value LitInt::base10_parse::<u32>() returns.
RECURSIVE base10_parse(_)
base10_parse(d) ==
    IF d = <<>> THEN 0
    ELSE base10_parse(SubSeq(d, 1, Len(d) - 1)) * 10 + DigitValue(d[Len(d)])

\* Option<T>: <<>> is None, <<v>> is Some(v).
None == <<>>
Some(v) == <<v>>

\* struct ParseFontOptions
FontOptions(families, weights, text, display) ==
    [families |-> families, weights |-> weights, text |-> text, display |-> display]

\* The segments pushed by ParseFontOptions::url, in push order.
url_segments_swapped(o) ==
    (IF o.weights # <<>>
        THEN <<WeightPrefix \o join([i \in 1..Len(o.weights) |-> to_string(o.weights[i])],
                                    <<",">>)>>
        ELSE <<>>)
    \o (IF o.families # <<>>
        THEN <<FamilyPrefix \o join([i \in 1..Len(o.families) |->
                                        replace_space(o.families[i])], <<"&">>)>>
        ELSE <<>>)
    \o (IF o.text # None THEN <<TextPrefix \o replace_space(o.text[1])>> ELSE <<>>)
    \o (IF o.display # None THEN <<DisplayPrefix \o replace_space(o.display[1])>>
        ELSE <<>>)

url_segments(o) ==
    (IF o.families # <<>>
        THEN <<FamilyPrefix \o join([i \in 1..Len(o.families) |->
                                        replace_space(o.families[i])], <<"&">>)>>
        ELSE <<>>)
    \o (IF o.weights # <<>>
        THEN <<WeightPrefix \o join([i \in 1..Len(o.weights) |-> to_string(o.weights[i])],
                                    <<",">>)>>
        ELSE <<>>)
    \o (IF o.text # None THEN <<TextPrefix \o replace_space(o.text[1])>> ELSE <<>>)
    \o (IF o.display # None THEN <<DisplayPrefix \o replace_space(o.display[1])>>
        ELSE <<>>)

\* A builder that repeats the prefix for every family.
ParseFontOptions_url_prefix_each(o) ==
    LET fam == [i \in 1..Len(o.families) |-> FamilyPrefix \o replace_space(o.families[i])]
        rest == IF o.families # <<>> THEN Tail(url_segments(o)) ELSE url_segments(o)
        segments == fam \o rest
    IN FontEndpoint \o (IF segments = <<>> THEN <<>> ELSE <<"?">> \o join(segments, <<"&">>))

\* A builder that always writes the query mark.
ParseFontOptions_url_always_query(o) ==
    FontEndpoint \o <<"?">> \o join(url_segments(o), <<"&">>)

\* ParseFontOptions::url
ParseFontOptions_url(o) ==
    LET segments == url_segments(o)
        query == IF segments = <<>> THEN <<>> ELSE <<"?">> \o join(segments, <<"&">>)
    IN FontEndpoint \o query

\* Results of the parsers: Ok(value), a syn::Error, or a panic of the macro.
Ok(v) == [status |-> "ok", value |-> v, error |-> "", ident |-> <<>>]
Err(kind, ident) == [status |-> "err", value |-> <<>>, error |-> kind, ident |-> ident]
Panic(kind) == [status |-> "panic", value |-> <<>>, error |-> kind, ident |-> <<>>]

\* The value written after `ident :` is one of
\*   [kind |-> "strs", v |-> a list of string literals]    ["Roboto", "Open Sans"]
\*   [kind |-> "ints", v |-> a list of integer literals]   [400, 700]
\*       (each literal is its decimal digits)
\*   [kind |-> "str",  v |-> <<a string>>]                 "swap"
StrList(l) == [kind |-> "strs", v |-> l]
IntList(l) == [kind |-> "ints", v |-> l]
StrLit(s) == [kind |-> "str", v |-> <<s>>]

\* A family list parsed by parse_terminated, which takes the empty list.
FontFamilies_parse_terminated(val) ==
    IF val.kind = "strs" THEN Ok(val.v) ELSE Err("syntax", <<>>)

\* FontFamilies::parse: a bracketed, non-empty list of string literals
FontFamilies_parse(val) ==
    IF val.kind = "strs" /\ val.v # <<>> THEN Ok(val.v) ELSE Err("syntax", <<>>)

\* FontWeights::parse: a bracketed, non-empty list of integer literals, each
\* unwrapped from base10_parse::<u32>()
FontWeights_parse(val) ==
    IF val.kind = "ints" /\ val.v # <<>>
    THEN IF \A i \in 1..Len(val.v) : FitsU32(val.v[i])
         THEN Ok([i \in 1..Len(val.v) |-> base10_parse(val.v[i])])
         ELSE Panic("base10_parse")
    ELSE Err("syntax", <<>>)

\* inside.parse::<syn::LitStr>()?.value()
LitStr_parse(val) ==
    IF val.kind = "str" THEN Ok(val.v[1]) ELSE Err("syntax", <<>>)

\* An error for an unknown option that leaves the identifier out of its message.
unknown_option_unnamed(ident) == Err("Unknown font option", <<>>)

\* The wildcard arm of the match: "Unknown font option: {ident}. Supported
\* options are families, weights, text, display"
unknown_option(ident) == Err("Unknown font option", ident)

\* The string the parser's loop matches on.
match_key(ident) == to_lowercase(ident)

\* The loop of ParseFontOptions::parse over the entries not yet read; acc holds
\* the four Option locals.
RECURSIVE parse_loop(_, _)
parse_loop(entries, acc) ==
    IF entries = <<>> THEN
        Ok(FontOptions(IF acc.families = None THEN <<>> ELSE acc.families[1],
                       IF acc.weights = None THEN <<>> ELSE acc.weights[1],
                       acc.text, acc.display))
    ELSE
        LET e == Head(entries)
            key == match_key(e.ident)
        IN  IF key = KeyFamilies THEN
                LET r == FontFamilies_parse(e.val)
                IN IF r.status = "ok"
                   THEN parse_loop(Tail(entries), [acc EXCEPT !.families = Some(r.value)])
                   ELSE r
            ELSE IF key = KeyWeights THEN
                LET r == FontWeights_parse(e.val)
                IN IF r.status = "ok"
                   THEN parse_loop(Tail(entries), [acc EXCEPT !.weights = Some(r.value)])
                   ELSE r
            ELSE IF key = KeyText THEN
                LET r == LitStr_parse(e.val)
                IN IF r.status = "ok"
                   THEN parse_loop(Tail(entries), [acc EXCEPT !.text = Some(r.value)])
                   ELSE r
            ELSE IF key = KeyDisplay THEN
                LET r == LitStr_parse(e.val)
                IN IF r.status = "ok"
                   THEN parse_loop(Tail(entries), [acc EXCEPT !.display = Some(r.value)])
                   ELSE r
            ELSE unknown_option(e.ident)

\* What is written after `font`: the entries between braces, or tokens that
\* are no brace group, such as the builder calls font().families([..]).
Braced(entries) == [braced |-> TRUE, entries |-> entries]
Unbraced == [braced |-> FALSE, entries |-> <<>>]

\* ParseFontOptions::parse
ParseFontOptions_parse(input) ==
    IF ~input.braced THEN Err("syntax", <<>>)
    ELSE parse_loop(input.entries, [families |-> None, weights |-> None,
                                    text |-> None, display |-> None])

---------------------------------------------------------------------------
(* The font option parser and URL builder applied to declarations *)

MaxOpts == 4

Roboto == <<"R", "o", "b", "o", "t", "o">>
OpenSans == <<"O", "p", "e", "n", " ", "S", "a", "n", "s">>
HiThere == <<"H", "i", " ", "t", "h", "e", "r", "e">>
Swap == <<"s", "w", "a", "p">>

Entry(ident, val) == [ident |-> ident, val |-> val]

\* The entries a declaration site may write between the braces.
OptionEntries ==
    { Entry(KeyFamilies, StrList(<<Roboto, OpenSans>>)),
      Entry(<<"F", "a", "m", "i", "l", "i", "e", "s">>, StrList(<<OpenSans>>)),
      Entry(KeyFamilies, StrList(<<>>)),
      Entry(KeyWeights, IntList(<<<<"4", "0", "0">>, <<"7", "0", "0">>>>)),
      Entry(KeyWeights, IntList(<<<<"0">>, <<"-", "1">>>>)),
      Entry(KeyWeights, IntList(<<<<"4", "2", "9", "4", "9", "6", "7", "2", "9", "6">>>>)),
      Entry(KeyText, StrLit(HiThere)),
      Entry(KeyDisplay, StrLit(Swap)),
      Entry(<<"s", "i", "z", "e">>, StrLit(<<"1">>)) }

SeqsUpTo(S, n) == UNION {[1..k -> S] : k \in 0..n}

NoTokens ==
    [kind |-> "none", items |-> <<>>, builder |-> FALSE, value |-> <<>>, error |-> "",
     ident |-> <<>>]

NoExpansion == [macro |-> "none", input |-> <<>>, tokens |-> NoTokens]

NotParsed == [status |-> "none", value |-> <<>>, error |-> "", ident |-> <<>>]

UnitIdle ==
    /\ unit = 1
    /\ nExpansions = 0
    /\ cache = <<>>
    /\ processCount = <<>>
    /\ registerCalls = <<>>
    /\ statics = <<>>
    /\ last = NoExpansion
    /\ region = <<>>
    /\ linkOrder = <<>>

LogIdle ==
    /\ LOG_FILE_FRESH = FALSE
    /\ callPc = <<>>
    /\ logTruncations = 0
    /\ subscriberInits = 0
    /\ logRecords = 0

FontIdle ==
    /\ decl = <<>>
    /\ fontPc = "idle"
    /\ parsed = NotParsed
    /\ urlOut = <<>>

InitFont ==
    /\ decl \in SeqsUpTo(OptionEntries, MaxOpts)
    /\ fontPc = "parse"
    /\ parsed = NotParsed
    /\ urlOut = <<>>
    /\ LogIdle
    /\ UnitIdle

\* FontAssetParser::parse, line 144: the options are parsed
FontParseStep ==
    /\ fontPc = "parse"
    /\ parsed' = ParseFontOptions_parse(Braced(decl))
    /\ fontPc' = IF parsed'.status = "ok" THEN "url" ELSE "failed"
    /\ UNCHANGED <<decl, urlOut, logVars, unitVars>>

\* FontAssetParser::parse, line 146: the URL is built from the parsed options
FontUrlStep ==
    /\ fontPc = "url"
    /\ urlOut' = ParseFontOptions_url(parsed.value)
    /\ fontPc' = "done"
    /\ UNCHANGED <<decl, parsed, logVars, unitVars>>

NextFont == FontParseStep \/ FontUrlStep

SpecFont == InitFont /\ [][NextFont]_vars

---------------------------------------------------------------------------
(* lib.rs: the diagnostic log, with calls of trace_to_file in flight together *)

MaxCalls == 4
MaxRecords == 2

Calls == 1..MaxCalls

\* An update of the flag that leaves it unset: fetch_and(true).
fetch_and(flag, val) == [old |-> flag, new |-> flag /\ val]

\* AtomicBool::fetch_or: one atomic read-modify-write returning the old value
fetch_or(flag, val) == [old |-> flag, new |-> flag \/ val]

InitLog ==
    /\ LOG_FILE_FRESH = FALSE
    /\ callPc = [c \in Calls |-> "idle"]
    /\ logTruncations = 0
    /\ subscriberInits = 0
    /\ logRecords = 0
    /\ FontIdle
    /\ UnitIdle

\* line 25: the call tests and sets the flag
TraceFetchOr(c) ==
    /\ callPc[c] = "idle"
    /\ LET r == fetch_or(LOG_FILE_FRESH, TRUE)
       IN /\ LOG_FILE_FRESH' = r.new
          /\ callPc' = [callPc EXCEPT ![c] = IF ~r.old THEN "create_dir" ELSE "noop"]
    /\ UNCHANGED <<logTruncations, subscriberInits, logRecords, fontVars, unitVars>>

\* lines 26-27: the directory of the log file is created
TraceCreateDir(c) ==
    /\ callPc[c] = "create_dir"
    /\ callPc' = [callPc EXCEPT ![c] = "open"]
    /\ UNCHANGED <<LOG_FILE_FRESH, logTruncations, subscriberInits, logRecords,
                   fontVars, unitVars>>

\* lines 28-33: the file is created, or opened and truncated
TraceOpen(c) ==
    /\ callPc[c] = "open"
    /\ logTruncations' = logTruncations + 1
    /\ logRecords' = 0
    /\ callPc' = [callPc EXCEPT ![c] = "init"]
    /\ UNCHANGED <<LOG_FILE_FRESH, subscriberInits, fontVars, unitVars>>

\* line 34: the subscriber writing to the file is installed
TraceInit(c) ==
    /\ callPc[c] = "init"
    /\ subscriberInits' = subscriberInits + 1
    /\ callPc' = [callPc EXCEPT ![c] = "initialized"]
    /\ UNCHANGED <<LOG_FILE_FRESH, logTruncations, logRecords, fontVars, unitVars>>

\* line 34, with_writer(file): an event traced by an expansion whose call has
\* returned is appended to the file once the subscriber is installed
TraceEvent(c) ==
    /\ callPc[c] \in {"noop", "initialized"}
    /\ subscriberInits > 0
    /\ logRecords < MaxRecords
    /\ logRecords' = logRecords + 1
    /\ UNCHANGED <<LOG_FILE_FRESH, callPc, logTruncations, subscriberInits,
                   fontVars, unitVars>>

NextLog ==
    \E c \in Calls :
        \/ TraceFetchOr(c)
        \/ TraceCreateDir(c)
        \/ TraceOpen(c)
        \/ TraceInit(c)
        \/ TraceEvent(c)

SpecLog == InitLog /\ [][NextLog]_vars

---------------------------------------------------------------------------
(* lib.rs: the link-section embedder *)

Quote == "\""
Backslash == "\\"

\* serde_json's string writer without its escaping.
json_string_raw(str) == <<Quote>> \o str \o <<Quote>>

RECURSIVE json_escape(_)
json_escape(str) ==
    IF str = <<>> THEN <<>>
    ELSE (IF Head(str) = Quote THEN <<Backslash, Quote>>
          ELSE IF Head(str) = Backslash THEN <<Backslash, Backslash>>
          ELSE <<Head(str)>>) \o json_escape(Tail(str))

\* serde_json's string writer: quotes around the bytes, a quote or backslash
\* escaped with a backslash, bytes above 0x7F written as they are
json_string(str) == <<Quote>> \o json_escape(str) \o <<Quote>>

\* A struct with named String fields, as serde_json writes it.
json_struct(fields) ==
    <<"{">> \o join([i \in 1..Len(fields) |->
                        json_string(fields[i][1]) \o <<":">> \o json_string(fields[i][2])],
                    <<",">>) \o <<"}">>

\* AssetType::Tailwind(TailwindAsset::new(classes))
TailwindAsset(classes) ==
    [variant |-> <<"T", "a", "i", "l", "w", "i", "n", "d">>,
     fields |-> << <<<<"c", "l", "a", "s", "s", "e", "s">>, classes>> >>]

\* AssetType::Metadata(MetadataAsset::new(key, value))
MetadataAsset(key, value) ==
    [variant |-> <<"M", "e", "t", "a", "d", "a", "t", "a">>,
     fields |-> << <<<<"k", "e", "y">>, key>>, <<<<"v", "a", "l", "u", "e">>, value>> >>]

\* serde_json::to_string(&asset): the enum is externally tagged
serde_json_to_string(asset) ==
    <<"{">> \o json_string(asset.variant) \o <<":">> \o json_struct(asset.fields) \o <<"}">>

\* manganis_common::linker::LinkSection::CURRENT.link_section
LinkSection_CURRENT == "manganis"

\* The number of characters of a UTF-8 string: its bytes without the
\* continuation bytes.
ContinuationBytes == {"A9"}
chars_count(bytes) == Cardinality({i \in 1..Len(bytes) : bytes[i] \notin ContinuationBytes})

\* An embedder that sizes the static by the characters of the payload.
generate_link_section_chars(asset) ==
    LET asset_description == serde_json_to_string(asset)
    IN [link_section |-> LinkSection_CURRENT, used |-> TRUE, symbol |-> "ASSET",
        len |-> chars_count(asset_description), bytes |-> asset_description,
        asset |-> asset]

\* generate_link_section
generate_link_section(asset) ==
    LET asset_description == serde_json_to_string(asset)
    IN [link_section |-> LinkSection_CURRENT, used |-> TRUE, symbol |-> "ASSET",
        len |-> Len(asset_description), bytes |-> asset_description,
        asset |-> asset]

---------------------------------------------------------------------------
(* The registration cache (add_asset and the assets_common crate) *)

Count(f, k) == IF k \in DOMAIN f THEN f[k] ELSE 0
Calls_of(f, k) == IF k \in DOMAIN f THEN f[k] ELSE <<>>
Put(f, k, v) == [x \in (DOMAIN f) \cup {k} |-> IF x = k THEN v ELSE f[x]]

\* url.parse::<FileSource>(): an absolute URL is a remote source
FileSource_parse(u) ==
    IF OccursAt(u, <<"h", "t", "t", "p", "s", ":", "/", "/">>, 1)
    THEN Ok([kind |-> "remote", location |-> u])
    ELSE Ok([kind |-> "local", location |-> u])

\* assets_common::FileOptions::Css(CssOptions::default())
CssOptions_default == "Css(default)"

\* The key of a registration: the canonical source and the options.
CacheKey(source, options) == [source |-> source, options |-> options]

\* The served location the processing step assigns: a name derived from the
\* content found at the source.
served_location(key) == [served |-> "hashed name", of |-> key]

---------------------------------------------------------------------------
(* lib.rs: the macros, expanded one after another by the units' processes *)

MaxExpansions == 3
MaxUnits == 2

\* trace_to_file, run to its end by the one expansion in progress
trace_to_file ==
    LET r == fetch_or(LOG_FILE_FRESH, TRUE)
    IN /\ LOG_FILE_FRESH' = r.new
       /\ logTruncations' = IF ~r.old THEN logTruncations + 1 ELSE logTruncations
       /\ subscriberInits' = IF ~r.old THEN subscriberInits + 1 ELSE subscriberInits
       /\ logRecords' = IF ~r.old THEN 0 ELSE logRecords
       /\ UNCHANGED callPc

\* parse_macro_input!: a syn::Error becomes the compile_error! the macro returns
compile_error(err) ==
    [kind |-> "compile_error", items |-> <<>>, builder |-> FALSE, value |-> None,
     error |-> err.error, ident |-> err.ident]

\* A panic of the macro, which the compiler reports as an error of the call.
macro_panic(err) ==
    [kind |-> "panic", items |-> <<>>, builder |-> FALSE, value |-> None,
     error |-> err.error, ident |-> <<>>]

\* What stands in a string where the text of a literal is no literal.
NotAString == "not a string literal"

\* The string a cooked string literal stands for, from the text between its
\* quotes: a backslash with the quote or backslash after it stands for that
\* byte, every other byte for itself.  This is LitStr::value(), and it is the
\* value the compiled program has for the literal.
RECURSIVE LitStr_value(_)
LitStr_value(text) ==
    IF text = <<>> THEN <<>>
    ELSE IF Head(text) = Backslash
    THEN IF Len(text) >= 2 /\ text[2] \in {Quote, Backslash}
         THEN <<text[2]>> \o LitStr_value(SubSeq(text, 3, Len(text)))
         ELSE <<NotAString>>
    ELSE IF Head(text) = Quote THEN <<NotAString>>
    ELSE <<Head(text)>> \o LitStr_value(Tail(text))

\* A string written between quotes as it is, with no escaping.
Literal_string_verbatim(str) == str

\* The interpolation of a String by quote!: Literal::string, the text of a
\* literal that stands for the string, a quote or backslash escaped with a
\* backslash.
RECURSIVE Literal_string(_)
Literal_string(str) ==
    IF str = <<>> THEN <<>>
    ELSE (IF Head(str) \in {Quote, Backslash} THEN <<Backslash, Head(str)>>
          ELSE <<Head(str)>>) \o Literal_string(Tail(str))

\* The classes! output without the braces around it.
classes_tokens_bare(link_section, input_as_str) ==
    [kind |-> "items", items |-> <<link_section>>, builder |-> FALSE,
     value |-> Some(Literal_string(input_as_str)), error |-> "", ident |-> <<>>]

\* classes, lines 82-87: quote! { { #link_section #input_as_str } }
classes_tokens(link_section, input_as_str) ==
    [kind |-> "block", items |-> <<link_section>>, builder |-> FALSE,
     value |-> Some(Literal_string(input_as_str)), error |-> "", ident |-> <<>>]

\* meta, lines 240-244: quote! { { #link_section } }
meta_tokens(link_section) ==
    [kind |-> "block", items |-> <<link_section>>, builder |-> FALSE,
     value |-> None, error |-> "", ident |-> <<>>]

\* mg, lines 147-161, with FontAssetParser::to_tokens:
\* quote! { { #builder_output #asset } }, where #asset is the file name
mg_tokens(file_name) ==
    [kind |-> "block", items |-> <<>>, builder |-> TRUE,
     value |-> Some(file_name), error |-> "", ident |-> <<>>]

\* The statics of the returned tokens as the unit's crate holds them: each in
\* the scope it is declared in, the block of the expansion when the tokens are
\* a block and the scope of the call site otherwise.
Emitted(tokens, u, site) ==
    [i \in 1..Len(tokens.items) |->
        [unit |-> u, site |-> site,
         scope |-> IF tokens.kind = "block" THEN <<u, "block", site>> ELSE <<u, "caller">>,
         item |-> tokens.items[i]]]

Expanded(macro, input, tokens) ==
    /\ nExpansions' = nExpansions + 1
    /\ last' = [macro |-> macro, input |-> input, tokens |-> tokens]
    /\ statics' = statics \o Emitted(tokens, unit, nExpansions + 1)

CanExpand == nExpansions < MaxExpansions /\ linkOrder = <<>>

\* What a macro is given: a string literal, with the text between its quotes,
\* or tokens that are none.
Lit(str) == [lit |-> TRUE, str |-> str]
NotLit == [lit |-> FALSE, str |-> <<>>]

FlexClasses ==
    <<"f", "l", "e", "x", " ", "f", "l", "e", "x", "-", "c", "o", "l", " ", "p", "-", "5">>

\* The literal of the documentation's example; a literal of an escaped
\* backslash, a two-byte letter, an escaped quote and two braces; and no literal.
ClassInputs ==
    { Lit(FlexClasses),
      Lit(<<Backslash, Backslash, "C3", "A9", Backslash, Quote, "}", "{">>),
      NotLit }

\* classes
classes(input) ==
    /\ CanExpand
    /\ trace_to_file
    /\ IF ~input.lit
       THEN Expanded("classes", input, compile_error(Err("syntax", <<>>)))
       ELSE LET input_as_str == LitStr_value(input.str)
                asset == TailwindAsset(input_as_str)
                link_section == generate_link_section(asset)
            IN Expanded("classes", input, classes_tokens(link_section, input_as_str))
    /\ UNCHANGED <<unit, cache, processCount, registerCalls, region, linkOrder, fontVars>>

\* The key is an identifier, the value a string literal.
MetaInputs ==
    { [key |-> [ident |-> TRUE, str |-> <<"o", "p", "t">>], value |-> Lit(<<"3">>)],
      [key |-> [ident |-> FALSE, str |-> <<"o", "p", "t", "-", "l">>], value |-> Lit(<<"3">>)] }

\* MetadataValue::parse
MetadataValue_parse(input) ==
    IF input.key.ident /\ input.value.lit
    THEN Ok([key |-> input.key.str, value |-> LitStr_value(input.value.str)])
    ELSE Err("syntax", <<>>)

\* meta
meta(input) ==
    /\ CanExpand
    /\ trace_to_file
    /\ LET md == MetadataValue_parse(input)
       IN IF md.status # "ok"
          THEN Expanded("meta", input, compile_error(md))
          ELSE LET asset == MetadataAsset(md.value.key, md.value.value)
                   link_section == generate_link_section(asset)
               IN Expanded("meta", input, meta_tokens(link_section))
    /\ UNCHANGED <<unit, cache, processCount, registerCalls, region, linkOrder, fontVars>>

\* add_asset: the registration cache.  A key already registered gives back the
\* served location stored for it; a new key is processed once, and the served
\* location assigned to it is stored.
add_asset(key, input) ==
    /\ registerCalls' = Put(registerCalls, key, Append(Calls_of(registerCalls, key), input))
    /\ IF key \in DOMAIN cache
       THEN UNCHANGED <<cache, processCount>>
       ELSE /\ cache' = Put(cache, key, served_location(key))
            /\ processCount' = Put(processCount, key, Count(processCount, key) + 1)

NoRegistration == UNCHANGED <<cache, processCount, registerCalls>>

\* A font parser that takes the served location from a descriptor it
\* processes itself at every declaration, without asking the cache.
FontAssetParser_parse_uncached(input, env) ==
    LET options == ParseFontOptions_parse(input.body)
        key == CacheKey(FileSource_parse(ParseFontOptions_url(options.value)).value,
                        CssOptions_default)
    IN  IF options.status # "ok" \/ ~env.parses \/ ~env.located
        THEN NoRegistration /\ Expanded("mg", input, compile_error(Err("syntax", <<>>)))
        ELSE /\ registerCalls' = Put(registerCalls, key,
                                     Append(Calls_of(registerCalls, key), input))
             /\ cache' = Put(cache, key, served_location(key))
             /\ processCount' = Put(processCount, key, Count(processCount, key) + 1)
             /\ Expanded("mg", input, mg_tokens(cache'[key]))

\* A font parser that registers the source as soon as the URL is built, before
\* the stylesheet is looked for.
FontAssetParser_parse_eager(input, env) ==
    LET options == ParseFontOptions_parse(input.body)
    IN  IF options.status = "err"
        THEN NoRegistration /\ Expanded("mg", input, compile_error(options))
        ELSE IF options.status = "panic"
        THEN NoRegistration /\ Expanded("mg", input, macro_panic(options))
        ELSE
            LET u == ParseFontOptions_url(options.value)
                source == FileSource_parse(u)
                key == CacheKey(source.value, CssOptions_default)
            IN  /\ add_asset(key, input)
                /\ IF ~env.parses
                   THEN Expanded("mg", input,
                                 compile_error(Err("Failed to parse url", <<>>)))
                   ELSE IF ~env.located
                   THEN Expanded("mg", input,
                                 compile_error(Err("Failed to locate asset", <<>>)))
                   ELSE Expanded("mg", input, mg_tokens(cache'[key]))

\* FontAssetParser::parse and FontAssetParser::to_tokens.  The code of
\* FileSource::from_str and of FileAsset::new_with_options is outside the
\* sources: `env.parses` is whether the former accepts the URL, `env.located`
\* whether the latter finds the stylesheet at it.
FontAssetParser_parse(input, env) ==
    LET options == ParseFontOptions_parse(input.body)
    IN  IF options.status = "err"
        THEN NoRegistration /\ Expanded("mg", input, compile_error(options))
        ELSE IF options.status = "panic"
        THEN NoRegistration /\ Expanded("mg", input, macro_panic(options))
        ELSE
            LET u == ParseFontOptions_url(options.value)
                source == IF env.parses THEN FileSource_parse(u)
                          ELSE Err("Failed to parse url", <<>>)
            IN  IF source.status # "ok"
                THEN /\ NoRegistration
                     /\ Expanded("mg", input, compile_error(Err("Failed to parse url", <<>>)))
                ELSE IF ~env.located
                THEN /\ NoRegistration
                     /\ Expanded("mg", input,
                                 compile_error(Err("Failed to locate asset", <<>>)))
                ELSE LET key == CacheKey(source.value, CssOptions_default)
                     IN /\ add_asset(key, input)
                        /\ Expanded("mg", input, mg_tokens(cache'[key]))

\* AnyAssetParser::parse.  The parsers of `file` and `image` declarations are
\* in file.rs and image.rs, which are not among the sources modelled here; the
\* declarations of the model are the font declarations and those of no known
\* asset type.
AnyAssetParser_parse(input, env) ==
    IF input.ident = "font"
    THEN FontAssetParser_parse(input, env)
    ELSE /\ NoRegistration
         /\ Expanded("mg", input, compile_error(Err("Unknown asset type", <<>>)))

FontFamilyEntry == Entry(KeyFamilies, StrList(<<Roboto>>))
FontWeightEntry == Entry(KeyWeights, IntList(<<<<"4", "0", "0">>>>))

FontNoFamilyEntry == Entry(KeyFamilies, StrList(<<>>))
FontSizeEntry == Entry(<<"s", "i", "z", "e">>, StrLit(<<"1">>))

MgInputs ==
    { [ident |-> "font", body |-> Braced(<<FontFamilyEntry, FontWeightEntry>>)],
      [ident |-> "font", body |-> Braced(<<FontWeightEntry, FontFamilyEntry>>)],
      [ident |-> "font", body |-> Braced(<<FontFamilyEntry>>)],
      [ident |-> "font", body |-> Braced(<<FontFamilyEntry, FontSizeEntry>>)],
      [ident |-> "font", body |-> Braced(<<FontWeightEntry, FontNoFamilyEntry>>)],
      [ident |-> "font", body |-> Unbraced],
      [ident |-> "video", body |-> Unbraced] }

\* What the declaration meets outside the macro: whether the URL is accepted
\* as a source, and whether the asset is found at the source.
Environments ==
    { [parses |-> TRUE, located |-> TRUE],
      [parses |-> TRUE, located |-> FALSE],
      [parses |-> FALSE, located |-> FALSE] }

\* The declaration as the expansion meets it.
Declared(input, env) == [ident |-> input.ident, body |-> input.body, env |-> env]

\* mg
mg(input, env) ==
    /\ CanExpand
    /\ trace_to_file
    /\ AnyAssetParser_parse(Declared(input, env), env)
    /\ UNCHANGED <<unit, region, linkOrder, fontVars>>

\* The compiler process of the next unit starts, once the current unit has
\* expanded a macro: its statics are fresh, the flag unset and the cache empty.
NewUnit ==
    /\ unit < MaxUnits
    /\ last.macro # "none"
    /\ linkOrder = <<>>
    /\ unit' = unit + 1
    /\ LOG_FILE_FRESH' = FALSE
    /\ cache' = <<>>
    /\ processCount' = <<>>
    /\ registerCalls' = <<>>
    /\ last' = NoExpansion
    /\ UNCHANGED <<nExpansions, statics, region, linkOrder, callPc, logTruncations,
                   subscriberInits, logRecords, fontVars>>

RECURSIVE Flatten(_)
Flatten(seqs) == IF seqs = <<>> THEN <<>> ELSE Head(seqs) \o Flatten(Tail(seqs))

Orders(n) == {p \in [1..n -> 1..n] : \A i, j \in 1..n : p[i] = p[j] => i = j}

\* The linker merges the sections of the units: the statics' bytes, one after
\* another in an order of its choosing, with nothing between them.  The
\* compiler processes have ended by then, and their caches and flags with them.
Link(order) ==
    /\ linkOrder = <<>>
    /\ statics # <<>>
    /\ linkOrder' = order
    /\ region' = Flatten([i \in 1..Len(order) |-> statics[order[i]].item.bytes])
    /\ LOG_FILE_FRESH' = FALSE
    /\ cache' = <<>>
    /\ processCount' = <<>>
    /\ registerCalls' = <<>>
    /\ last' = NoExpansion
    /\ UNCHANGED <<unit, nExpansions, statics, callPc, logTruncations, subscriberInits,
                   logRecords, fontVars>>

Init ==
    /\ FontIdle
    /\ LogIdle
    /\ UnitIdle

Next ==
    \/ \E input \in ClassInputs : classes(input)
    \/ \E input \in MetaInputs : meta(input)
    \/ \E input \in MgInputs, env \in Environments : mg(input, env)
    \/ NewUnit
    \/ \E order \in Orders(Len(statics)) : Link(order)

Spec == Init /\ [][Next]_vars

---------------------------------------------------------------------------
(* Properties of the font URL builder and option parser (under SpecFont) *)

ExampleOptions ==
    FontOptions(<<Roboto, OpenSans>>, <<400, 700>>, Some(HiThere), Some(Swap))

FamiliesJoined(o) ==
    join([i \in 1..Len(o.families) |-> replace_space(o.families[i])], <<"&">>)

SegmentPrefixes == <<FamilyPrefix, WeightPrefix, TextPrefix, DisplayPrefix>>

\* Which of the four segments the options call for, in the order family,
\* weight, text, display.
SegmentPresent(o) ==
    <<o.families # <<>>, o.weights # <<>>, o.text # None, o.display # None>>

\* Where in the URL a segment with this prefix starts, right after a separator.
SegmentStarts(u, prefix) ==
    {i \in 2..Len(u) : OccursAt(u, prefix, i) /\ u[i - 1] \in {"?", "&"}}

\* C3: for a non-empty family list the URL holds one `family=` prefix, right
\* after the query mark, followed by the family names with their spaces
\* replaced by `+` and joined by `&`; no space is left in the URL; the weights
\* stand after `weight=` as decimal numbers without leading zeros, joined by
\* `,`; and the families Roboto and Open Sans with weights 400 and 700, text "Hi there" and
\* display "swap" give exactly the URL of the specification.
C3_FamilySegment ==
    fontPc = "done" =>
        LET o == parsed.value
            seg == <<"?">> \o FamilyPrefix \o FamiliesJoined(o)
            end == Len(FontEndpoint) + Len(seg)
        IN  /\ o.families # <<>> =>
                /\ OccursAt(urlOut, seg, Len(FontEndpoint) + 1)
                /\ Cardinality(Occurrences(urlOut, FamilyPrefix)) = 1
                /\ end = Len(urlOut) \/ urlOut[end + 1] = "&"
                /\ \A i \in 1..Len(urlOut) : urlOut[i] # " "
            /\ o.weights # <<>> =>
                LET digits == [i \in 1..Len(o.weights) |-> to_string(o.weights[i])]
                    wseg == WeightPrefix \o join(digits, <<",">>)
                IN /\ \A i \in 1..Len(digits) :
                        /\ base10_parse(digits[i]) = o.weights[i]
                        /\ StripZeros(digits[i]) = digits[i]
                   /\ \E i \in SegmentStarts(urlOut, WeightPrefix) :
                        /\ OccursAt(urlOut, wseg, i)
                        /\ i + Len(wseg) - 1 = Len(urlOut) \/ urlOut[i + Len(wseg)] = "&"
            /\ o = ExampleOptions =>
                Str(urlOut) = "https://fonts.googleapis.com/css2?family=Roboto&Open+Sans&weight=400,700&text=Hi+there&display=swap"

C3_Witness ==
    /\ fontPc = "done"
    /\ parsed.value = ExampleOptions
    /\ Str(urlOut) = "https://fonts.googleapis.com/css2?family=Roboto&Open+Sans&weight=400,700&text=Hi+there&display=swap"

\* C4: the segments the options call for, and no others, start exactly once
\* in the URL, in the order family, weight, text, display, the first right
\* after the query mark and each later one after a single `&`, in whatever
\* order the options were written.
C4_SegmentOrder ==
    fontPc = "done" =>
        LET o == parsed.value
            present == SegmentPresent(o)
            starts(k) == SegmentStarts(urlOut, SegmentPrefixes[k])
            pos(k) == CHOOSE i \in starts(k) : TRUE
            first == CHOOSE k \in 1..4 : present[k] /\ \A j \in 1..(k - 1) : ~present[j]
        IN  /\ \A k \in 1..4 : Cardinality(starts(k)) = (IF present[k] THEN 1 ELSE 0)
            /\ \A j, k \in 1..4 : (present[j] /\ present[k] /\ j < k) => pos(j) < pos(k)
            /\ \A k \in 1..4 : present[k] =>
                 IF k = first
                 THEN pos(k) = Len(FontEndpoint) + 2 /\ urlOut[pos(k) - 1] = "?"
                 ELSE urlOut[pos(k) - 1] = "&"
            /\ Occurrences(urlOut, <<"&", "&">>) = {}
            /\ urlOut[Len(urlOut)] \notin {"&", "?"}

C4_Witness ==
    /\ fontPc = "done"
    /\ Len(decl) = 4
    /\ <<decl[1].ident, decl[2].ident, decl[3].ident, decl[4].ident>>
         = <<KeyDisplay, KeyText, KeyWeights, KeyFamilies>>
    /\ SegmentStarts(urlOut, FamilyPrefix) # {}
    /\ SegmentStarts(urlOut, DisplayPrefix) # {}

\* C5: the URL holds a `?` exactly when a segment is present; without any
\* segment it is the bare endpoint, and otherwise the endpoint, `?` and the
\* segments joined by `&`.
C5_QueryMark ==
    fontPc = "done" =>
        LET o == parsed.value
            any == \E k \in 1..4 : SegmentPresent(o)[k]
            n == Len(FontEndpoint)
        IN  /\ (\E i \in 1..Len(urlOut) : urlOut[i] = "?") <=> any
            /\ ~any => Str(urlOut) = "https://fonts.googleapis.com/css2"
            /\ any =>
                /\ Len(urlOut) > n + 1
                /\ SubSeq(urlOut, 1, n + 1) = FontEndpoint \o <<"?">>
                /\ SubSeq(urlOut, n + 2, Len(urlOut)) = join(url_segments(o), <<"&">>)

C5_Witness ==
    /\ fontPc = "done"
    /\ parsed.value = FontOptions(<<>>, <<>>, None, None)
    /\ Str(urlOut) = "https://fonts.googleapis.com/css2"

\* The entries of the declaration whose key, as written, is outside the set.
KeysOutside == {i \in 1..Len(decl) : decl[i].ident \notin RecognizedKeys}

\* The entries whose key is outside the set whatever the case of its letters.
KeysUnknown == {i \in 1..Len(decl) : to_lowercase(decl[i].ident) \notin RecognizedKeys}

Least(S) == CHOOSE i \in S : \A j \in S : i <= j

\* C10 as stated: a declaration with an option key outside {families,
\* weights, text, display} fails with an error that names that key.
C10_Original ==
    (fontPc # "parse" /\ KeysOutside # {}) =>
        /\ parsed.status = "err"
        /\ parsed.error = "Unknown font option"
        /\ parsed.ident \in {decl[i].ident : i \in KeysOutside}

\* C10, amended: keys are compared after lowercasing.  A declaration with a
\* key whose lowercase form is outside the set is never accepted; if the
\* entries before the first such key parse, the error is the unknown-option
\* error naming that key as written; and the unknown-option error is raised
\* for no other key.
C10_UnknownOptionRejected ==
    fontPc # "parse" =>
        /\ KeysUnknown # {} =>
            /\ parsed.status # "ok"
            /\ ParseFontOptions_parse(Braced(SubSeq(decl, 1, Least(KeysUnknown) - 1))).status = "ok"
                => /\ parsed.status = "err"
                   /\ parsed.error = "Unknown font option"
                   /\ parsed.ident = decl[Least(KeysUnknown)].ident
        /\ parsed.error = "Unknown font option" =>
            /\ KeysUnknown # {}
            /\ parsed.ident = decl[Least(KeysUnknown)].ident

C10_Witness ==
    /\ fontPc = "failed"
    /\ Len(decl) >= 2
    /\ decl[1].ident = KeyFamilies
    /\ decl[2].ident = <<"s", "i", "z", "e">>
    /\ parsed.error = "Unknown font option"
    /\ parsed.ident = <<"s", "i", "z", "e">>

---------------------------------------------------------------------------
(* Properties of the diagnostic log (under SpecLog) *)

Initializers == {c \in Calls : callPc[c] \in {"create_dir", "open", "init", "initialized"}}

---------------------------------------------------------------------------
(* Properties of the expansions, the cache and the embedded records (under Spec) *)

\* The key a font declaration registers.
FontKey(input) ==
    CacheKey([kind |-> "remote",
              location |-> ParseFontOptions_url(ParseFontOptions_parse(input.body).value)],
             CssOptions_default)

\* C1: within one unit's cache the processing step runs at most once per key;
\* a step that registers a key stores nothing new for a key already there,
\* returns the served location the cache holds for it, which is the one
\* stored at its first registration, and runs no processing; and a font
\* declaration registers the key of the URL its options build, so that
\* declarations building the same URL get the same served location.
C1_RegisterIdempotent ==
    [][(unit' = unit /\ linkOrder' = <<>>) =>
        /\ \A k \in DOMAIN processCount' : processCount'[k] <= 1
        /\ \A k \in DOMAIN cache : k \in DOMAIN cache' /\ cache'[k] = cache[k]
        /\ \A k \in DOMAIN registerCalls' :
            Len(registerCalls'[k]) > Len(Calls_of(registerCalls, k)) =>
                /\ k = FontKey(last'.input)
                /\ last'.tokens.value = Some(cache'[k])
                /\ k \in DOMAIN cache => processCount' = processCount
                /\ Count(processCount', k) = 1
      ]_vars

\* Two declarations with the options in different order were registered under
\* one key, and the key was processed once.
C1_Witness ==
    \E k \in DOMAIN registerCalls :
        /\ Len(registerCalls[k]) >= 2
        /\ registerCalls[k][1] # registerCalls[k][2]
        /\ processCount[k] = 1
        /\ last.tokens.value = Some(cache[k])

\* C2 as stated: the tokens of every successful declaration, fonts included,
\* hold exactly one link-section record.
C2_Original ==
    (last.macro \in {"classes", "meta", "mg"} /\ last.tokens.kind = "block") =>
        Len(last.tokens.items) = 1

\* C7 as stated: no two statics embedded in one unit have the same symbol name.
C7_Original ==
    \A i, j \in 1..Len(statics) :
        (i # j /\ statics[i].unit = statics[j].unit) =>
            statics[i].item.symbol # statics[j].item.symbol

\* C7, amended: every static is named ASSET, and no two statics of one unit
\* are declared in the same scope, because each is declared in the block of
\* its own expansion.
C7_NoCollidingSymbols ==
    /\ \A i \in 1..Len(statics) :
        /\ statics[i].item.symbol = "ASSET"
        /\ statics[i].scope = <<statics[i].unit, "block", statics[i].site>>
    /\ \A i, j \in 1..Len(statics) :
        (i # j /\ statics[i].unit = statics[j].unit) =>
            <<statics[i].scope, statics[i].item.symbol>>
                # <<statics[j].scope, statics[j].item.symbol>>

C7_Witness ==
    /\ Len(statics) >= 2
    /\ statics[1].unit = statics[2].unit
    /\ statics[1].item.symbol = statics[2].item.symbol
    /\ statics[1].scope # statics[2].scope

\* The records of a region, found by reading it from left to right.  A quote
\* is escaped when an odd number of backslashes stands right before it; a byte
\* is outside the strings when an even number of unescaped quotes precedes it;
\* a record ends at the brace, outside the strings, that closes its first brace.
\* A region that is not one record after another has no split.
SplitRecords(blob) ==
    LET n == Len(blob)
        run(i) == i - 1 - (IF \E j \in 1..(i - 1) : blob[j] # Backslash
                           THEN CHOOSE j \in 1..(i - 1) :
                                    /\ blob[j] # Backslash
                                    /\ \A k \in (j + 1)..(i - 1) : blob[k] = Backslash
                           ELSE 0)
        escaped(i) == IF i = 1 \/ blob[i - 1] # Backslash THEN FALSE ELSE run(i) % 2 = 1
        quotes == {i \in 1..n : blob[i] = Quote /\ ~escaped(i)}
        outside(i) == Cardinality({q \in quotes : q < i}) % 2 = 0
        opens == {i \in 1..n : blob[i] = "{" /\ outside(i)}
        closes == {i \in 1..n : blob[i] = "}" /\ outside(i)}
        depth(i) == Cardinality({j \in opens : j <= i}) - Cardinality({j \in closes : j <= i})
        ends == {i \in closes : depth(i) = 0}
        nth(k) == CHOOSE e \in ends : Cardinality({x \in ends : x < e}) = k - 1
        begin(k) == IF k = 1 THEN 1 ELSE nth(k - 1) + 1
        wellFormed ==
            /\ Cardinality(quotes) % 2 = 0
            /\ n > 0 => n \in ends
            /\ \A i \in closes : depth(i) >= 0
            /\ \A k \in 1..Cardinality(ends) : blob[begin(k)] = "{"
    IN IF wellFormed
       THEN [k \in 1..Cardinality(ends) |-> SubSeq(blob, begin(k), nth(k))]
       ELSE << <<"no split">> >>

\* C8: whatever the order in which the linker lays out the statics of the
\* units, the region splits back into exactly the payloads that were
\* embedded, each once, in the order they lie in the region.
C8_RegionSplits ==
    linkOrder # <<>> =>
        SplitRecords(region) = [i \in 1..Len(linkOrder) |-> statics[linkOrder[i]].item.bytes]

C8_Witness ==
    /\ Len(linkOrder) = 3
    /\ linkOrder[1] = 3
    /\ statics[1].unit # statics[3].unit
    /\ \E i \in 1..3 : statics[i].item.asset.fields[1][2] = FlexClasses
    /\ \E i \in 1..3 :
        statics[i].item.asset.fields[1][2] = <<Backslash, "C3", "A9", Quote, "}", "{">>
    /\ SplitRecords(region) = [i \in 1..3 |-> statics[linkOrder[i]].item.bytes]

\* C9: every embedded static has the length of its payload in bytes, holds
\* the JSON text of its asset, is marked #[used], and lies in the one section
\* named by LinkSection::CURRENT.
C9_StaticSizedToPayload ==
    \A i \in 1..Len(statics) :
        LET item == statics[i].item
        IN /\ item.len = Len(item.bytes)
           /\ item.bytes = serde_json_to_string(item.asset)
           /\ item.used
           /\ item.link_section = LinkSection_CURRENT
           /\ \A j \in 1..Len(statics) : statics[j].item.link_section = item.link_section

C9_Witness ==
    \E i \in 1..Len(statics) :
        /\ statics[i].item.asset = TailwindAsset(<<Backslash, "C3", "A9", Quote, "}", "{">>)
        /\ statics[i].item.len = Len(statics[i].item.bytes)
        /\ statics[i].item.len > chars_count(statics[i].item.bytes)
        /\ Str(statics[i].item.bytes)
            = "{\"Tailwind\":{\"classes\":\"\\\\C3A9\\\"}{\"}}"


\* A declaration that is bad: one the macro cannot parse, or one that does not
\* resolve: an asset type that is not known, options that are unknown or
\* malformed, a URL that is no source, an asset that is not found.
BadDeclaration(l) ==
    \/ /\ l.macro = "mg"
       /\ \/ l.input.ident # "font"
          \/ ParseFontOptions_parse(l.input.body).status # "ok"
          \/ ~l.input.env.parses
          \/ ~l.input.env.located
    \/ l.macro = "classes" /\ ~l.input.lit
    \/ l.macro = "meta" /\ MetadataValue_parse(l.input).status # "ok"

---------------------------------------------------------------------------
(* Properties of the option lists (under SpecFont) *)

\* The entries of a declaration written under a key, compared as the parser
\* compares keys.
Written(d, key) == {i \in 1..Len(d) : match_key(d[i].ident) = key}

\* C12: a declaration that writes the families option with an empty list is
\* not constructed: its parse fails, and fails with a returned error when
\* every weight written fits u32; the weights of a
\* constructed declaration are non-negative integers, the values of literals
\* written without a sign; and the family list the URL builder is given is
\* empty only when the declaration writes no families option, being otherwise
\* the non-empty list written last.
C12_FamiliesNonEmpty ==
    fontPc # "parse" =>
        LET fams == Written(decl, KeyFamilies)
            wts == Written(decl, KeyWeights)
        IN  /\ (\E i \in fams : decl[i].val = StrList(<<>>)) =>
                /\ parsed.status \in {"err", "panic"}
                /\ fontPc = "failed"
                /\ (\A i \in wts : \A j \in 1..Len(decl[i].val.v) :
                        FitsU32(decl[i].val.v[j])) => parsed.status = "err"
            /\ parsed.status = "ok" =>
                /\ \A i \in 1..Len(parsed.value.weights) :
                    /\ parsed.value.weights[i] \in Nat
                    /\ parsed.value.weights[i] >= 0
                /\ \A i \in wts : \A j \in 1..Len(decl[i].val.v) :
                    /\ ~Negative(decl[i].val.v[j])
                    /\ FitsU32(decl[i].val.v[j])
            /\ fontPc \in {"url", "done"} =>
                /\ parsed.value.families = <<>> <=> fams = {}
                /\ \A i \in fams :
                    (\A j \in fams : j <= i) => parsed.value.families = decl[i].val.v

\* A declaration with weights and, after them, the families option with an
\* empty list was parsed, and failed with the error of the list's parser.
C12_Witness ==
    /\ fontPc = "failed"
    /\ Len(decl) = 2
    /\ decl[1] = Entry(KeyWeights, IntList(<<<<"4", "0", "0">>, <<"7", "0", "0">>>>))
    /\ decl[2] = Entry(KeyFamilies, StrList(<<>>))
    /\ parsed.status = "err"
    /\ parsed.error = "syntax"


---------------------------------------------------------------------------
(* Properties of classes! (under Spec) *)

\* C13: when classes! is given a string literal, the tokens it returns are a
\* block whose value is a literal standing for the same string as the literal
\* given, and the block holds one record, the last embedded in the unit,
\* whose asset is the Tailwind asset of that string and whose bytes are the
\* JSON text of that asset; classes!("flex flex-col p-5") has the value
\* "flex flex-col p-5".
C13_ClassesUnmodified ==
    (last.macro = "classes" /\ last.input.lit) =>
        LET s == LitStr_value(last.input.str)
            t == last.tokens
        IN  /\ t.kind = "block"
            /\ t.value # None
            /\ LitStr_value(t.value[1]) = s
            /\ NotAString \notin {s[i] : i \in 1..Len(s)}
            /\ Len(t.items) = 1
            /\ t.items[1].asset = TailwindAsset(s)
            /\ t.items[1].bytes = serde_json_to_string(TailwindAsset(s))
            /\ statics # <<>>
            /\ statics[Len(statics)].item = t.items[1]
            /\ last.input.str = FlexClasses =>
                /\ Str(LitStr_value(t.value[1])) = "flex flex-col p-5"
                /\ Str(t.items[1].bytes) = "{\"Tailwind\":{\"classes\":\"flex flex-col p-5\"}}"

\* classes! was given a literal with escapes in it, after the literal of the
\* example had been embedded: the value of the returned literal is the string
\* the given literal stands for, and the record holds that string.
C13_Witness ==
    /\ last.macro = "classes"
    /\ last.input = Lit(<<Backslash, Backslash, "C3", "A9", Backslash, Quote, "}", "{">>)
    /\ LitStr_value(last.tokens.value[1]) = <<Backslash, "C3", "A9", Quote, "}", "{">>
    /\ Len(statics) = 2
    /\ statics[1].item.asset = TailwindAsset(FlexClasses)
    /\ statics[2].item.asset = TailwindAsset(<<Backslash, "C3", "A9", Quote, "}", "{">>)
    /\ statics[2].item = last.tokens.items[1]

====
